---- MODULE Spec2Model ----
(***************************************************************************)
(* A model of parameter-sweeper.py: the sweep over the cartesian product   *)
(* of the [benchmark] section of a sweep configuration file, the merge of  *)
(* each combination over the base configuration, the run of the benchmark  *)
(* on a temporary merged configuration file, and the annotation of the     *)
(* resulting PSV table with the swept parameters.                          *)
(*                                                                         *)
(* Strings are sequences of one-character strings, so that str.split(',')  *)
(* and the text <-> value conversions of the PSV file are computed.        *)
(* A configuration is a set of sections and a set of <<section, key,       *)
(* value>> items (a dict of dicts); an ordered dict is a sequence of       *)
(* [key, value] records.                                                   *)
(***************************************************************************)
EXTENDS Integers, Sequences, FiniteSets, TLC

VARIABLES
    pc,                      \* position of the script
    base_exists,             \* os.path.isfile(base_config_location)
    sweep_exists,            \* os.path.isfile(sweep_config_location)
    base_file,               \* content of the base configuration file
    sweep_file,              \* content of the sweep configuration file
    base_config_dict,        \* line 68
    sweep_params,            \* line 80: ordered dict key -> list of candidates
    markers,                 \* the '*' markers printed at line 91
    benchmark_params,        \* line 99: the combinations, in generation order
    benchmark_params_count,  \* line 100
    counter,                 \* line 104
    params,                  \* the loop variable of line 105
    merged_config,           \* line 109
    tmp,                     \* the temporary files created so far, by name
    merged_config_file,      \* the handle of line 119
    invocations,             \* the calls of genomics_benchmarks.main()
    psv,                     \* parametersweep_results.psv on the filesystem
    psv_errors,              \* how often line 33 was printed
    error_msg,               \* the message of line 66 or line 76
    total_reported,          \* the number printed at line 101
    finished,                \* line 142 was printed
    exit_status,             \* how the process ended
    history                  \* the PSV file before each call of add_parameters_to_psv

vars == <<pc, base_exists, sweep_exists, base_file, sweep_file, base_config_dict,
          sweep_params, markers, benchmark_params, benchmark_params_count, counter,
          params, merged_config, tmp, merged_config_file, invocations, psv,
          psv_errors, error_msg, total_reported, finished, exit_status, history>>

(***************************************************************************)
(* Bounds of the model.                                                    *)
(***************************************************************************)
MaxRawLen == 3      \* longest value text of a key of the sweep file
MaxRuns == 4        \* sweeps of at most this many combinations are run
MaxRows == 2        \* rows of the tables add_parameters_to_psv is applied to

(***************************************************************************)
(* Texts.                                                                  *)
(***************************************************************************)
Comma == ","
SweepChars == {"a", Comma}

RECURSIVE Strings(_, _)
Strings(alphabet, n) ==
    IF n = 0 THEN {<<>>}
    ELSE LET S == Strings(alphabet, n - 1)
         IN  S \cup {Append(s, c) : s \in {t \in S : Len(t) = n - 1}, c \in alphabet}

\* str.split(','): the pieces between the commas, empty pieces included.
RECURSIVE Split(_)
Split(s) ==
    IF \A i \in 1..Len(s) : s[i] # Comma THEN <<s>>
    ELSE LET i == CHOOSE i \in 1..Len(s) :
                      s[i] = Comma /\ \A j \in 1..(i - 1) : s[j] # Comma
         IN  <<SubSeq(s, 1, i - 1)>> \o Split(SubSeq(s, i + 1, Len(s)))

(***************************************************************************)
(* Configurations.                                                         *)
(***************************************************************************)
SweepSection == "benchmark"

EmptyConfig == [sections |-> {}, items |-> {}]

\* configparser_to_dict: every section of the parser, with its items.
ConfigparserToDict(config) ==
    [sections |-> config.sections,
     items |-> {t \in config.items : t[1] \in config.sections}]

\* merged_config['benchmark'][key] = value
SetItem(config, key, value) ==
    [sections |-> config.sections,
     items |-> {t \in config.items : ~(t[1] = SweepSection /\ t[2] = key)}
               \cup {<<SweepSection, key, value>>}]

RECURSIVE SetItems(_, _, _)
SetItems(config, combo, n) ==
    IF n = 0 THEN config
    ELSE SetItem(SetItems(config, combo, n - 1), combo[n].key, combo[n].value)

\* A merge in which a key of the base configuration is kept.
MergeConfigBaseWins(base_dict, combo) ==
    LET kept == {n \in 1..Len(combo) :
                    \A t \in base_dict.items :
                        ~(t[1] = SweepSection /\ t[2] = combo[n].key)}
    IN  [sections |-> base_dict.sections \cup {SweepSection},
         items |-> base_dict.items
                   \cup {<<SweepSection, combo[n].key, combo[n].value>> : n \in kept}]

\* Lines 109-117: read_dict(base), the section created when absent, and the
\* parameters of the combination set in it.
MergeConfig(base_dict, combo) ==
    SetItems([sections |-> base_dict.sections \cup {SweepSection},
              items |-> base_dict.items],
             combo, Len(combo))

(***************************************************************************)
(* The parameters to sweep through.                                        *)
(***************************************************************************)
\* Lines 82-88: the keys of every section named 'benchmark', each with the
\* pieces of its value; the other sections are ignored.
RECURSIVE ExtractSweepParams(_)
ExtractSweepParams(sections) ==
    IF Len(sections) = 0 THEN <<>>
    ELSE LET section == sections[1]
             rest == ExtractSweepParams(Tail(sections))
         IN  IF section.name = SweepSection
             THEN [j \in 1..Len(section.items) |->
                      [key |-> section.items[j].key,
                       values |-> Split(section.items[j].raw)]] \o rest
             ELSE rest

\* Line 90: is_base_key_overridden, for every key of sweep_params.
OverriddenMarkers(sp, base) ==
    [j \in 1..Len(sp) |->
        [key |-> sp[j].key,
         overridden |-> /\ SweepSection \in base.sections
                        /\ \E t \in base.items :
                              t[1] = SweepSection /\ t[2] = sp[j].key]]

\* A product in which the first pool varies fastest.
RECURSIVE ProductFirstFastest(_)
ProductFirstFastest(pools) ==
    IF Len(pools) = 0 THEN << <<>> >>
    ELSE LET rest == ProductFirstFastest(Tail(pools))
             pool == pools[1]
         IN  [n \in 1..(Len(rest) * Len(pool)) |->
                 <<pool[((n - 1) % Len(pool)) + 1]>>
                     \o rest[((n - 1) \div Len(pool)) + 1]]

\* itertools.product: result = [[]]; for every pool in turn,
\* result = [x + [y] for x in result for y in pool].
RECURSIVE Product(_)
Product(pools) ==
    IF Len(pools) = 0 THEN << <<>> >>
    ELSE LET result == Product(SubSeq(pools, 1, Len(pools) - 1))
             pool == pools[Len(pools)]
         IN  [n \in 1..(Len(result) * Len(pool)) |->
                 Append(result[((n - 1) \div Len(pool)) + 1],
                        pool[((n - 1) % Len(pool)) + 1])]

\* dict(zip(inp.keys(), itervalues))
ZipDict(keys, itervalues) ==
    [j \in 1..Len(keys) |-> [key |-> keys[j], value |-> itervalues[j]]]

\* Line 19.
ProductParams(inp) ==
    LET keys == [j \in 1..Len(inp) |-> inp[j].key]
        pools == [j \in 1..Len(inp) |-> inp[j].values]
        prods == Product(pools)
    IN  [n \in 1..Len(prods) |-> ZipDict(keys, prods[n])]

(***************************************************************************)
(* The PSV file and its pandas DataFrame.                                  *)
(*                                                                         *)
(* A PSV file is a header and rows of text cells.  read_csv gives every    *)
(* column a dtype: int64 when every cell is an integer, float64 when every *)
(* cell is a number or empty, object otherwise; an empty cell is NaN.      *)
(* to_csv writes NaN as the empty text, an int64 as its digits, a float as *)
(* its repr and a str as it is.  A DataFrame cell is [k, v] with k one of  *)
(* "nan", "int", "float", "str" and v its digits or its text.              *)
(***************************************************************************)
Digits == {"0", "1"}
FloatSuffix == <<".", "0">>

Absent == [exists |-> FALSE, cols |-> <<>>, rows |-> <<>>]

IsNA(t) == t = <<>>
IsIntText(t) == Len(t) > 0 /\ \A i \in 1..Len(t) : t[i] \in Digits
IsFloatText(t) ==
    /\ Len(t) > 2
    /\ SubSeq(t, Len(t) - 1, Len(t)) = FloatSuffix
    /\ IsIntText(SubSeq(t, 1, Len(t) - 2))
IsNumText(t) == IsIntText(t) \/ IsFloatText(t)

\* The digits of an integer, without leading zeros.
RECURSIVE IntCanon(_)
IntCanon(t) == IF Len(t) > 1 /\ t[1] = "0" THEN IntCanon(Tail(t)) ELSE t

NumCanon(t) == IF IsFloatText(t) THEN IntCanon(SubSeq(t, 1, Len(t) - 2)) ELSE IntCanon(t)

NaN == [k |-> "nan", v |-> <<>>]

\* The cells of one column as read_csv parses them.
ReadColumn(texts) ==
    IF \A i \in 1..Len(texts) : IsIntText(texts[i])
    THEN [i \in 1..Len(texts) |-> [k |-> "int", v |-> IntCanon(texts[i])]]
    ELSE IF \A i \in 1..Len(texts) : IsNA(texts[i]) \/ IsNumText(texts[i])
    THEN [i \in 1..Len(texts) |->
             IF IsNA(texts[i]) THEN NaN ELSE [k |-> "float", v |-> NumCanon(texts[i])]]
    ELSE [i \in 1..Len(texts) |->
             IF IsNA(texts[i]) THEN NaN ELSE [k |-> "str", v |-> texts[i]]]

\* Line 37: pd.read_csv(psv_location, delimiter='|')
ReadCsv(file) ==
    LET column(c) == ReadColumn([r \in 1..Len(file.rows) |-> file.rows[r][c]])
    IN  [cols |-> file.cols,
         data |-> [r \in 1..Len(file.rows) |->
                      [c \in 1..Len(file.cols) |-> column(c)[r]]]]

\* The text to_csv writes for a cell.
FormatCell(cell) ==
    CASE cell.k = "nan" -> <<>>
      [] cell.k = "int" -> cell.v
      [] cell.k = "float" -> cell.v \o FloatSuffix
      [] OTHER -> cell.v

\* A to_csv that writes the index of the rows as a first column.
ToCsvWithIndex(df) ==
    [exists |-> TRUE,
     cols |-> <<"index">> \o df.cols,
     rows |-> [r \in 1..Len(df.data) |->
                  <<[i \in 1..r |-> "1"]>>
                      \o [c \in 1..Len(df.cols) |-> FormatCell(df.data[r][c])]]]

\* Line 47: df.to_csv(psv_location, sep="|", index=False)
ToCsv(df) ==
    [exists |-> TRUE,
     cols |-> df.cols,
     rows |-> [r \in 1..Len(df.data) |->
                  [c \in 1..Len(df.cols) |-> FormatCell(df.data[r][c])]]]

ColumnIndex(df, column_name) == CHOOSE c \in 1..Len(df.cols) : df.cols[c] = column_name

\* A fill that overwrites the cells that hold a value.
FillNaOverwrite(df, column_name, value) ==
    [cols |-> df.cols,
     data |-> [r \in 1..Len(df.data) |->
                  [c \in 1..Len(df.cols) |->
                      IF c = ColumnIndex(df, column_name)
                      THEN [k |-> "str", v |-> value]
                      ELSE df.data[r][c]]]]

\* Line 42: df[column_name] = df[column_name].fillna(value)
FillNa(df, column_name, value) ==
    [cols |-> df.cols,
     data |-> [r \in 1..Len(df.data) |->
                  [c \in 1..Len(df.cols) |->
                      IF c = ColumnIndex(df, column_name) /\ df.data[r][c].k = "nan"
                      THEN [k |-> "str", v |-> value]
                      ELSE df.data[r][c]]]]

\* Line 44: df[column_name] = value
NewColumn(df, column_name, value) ==
    [cols |-> Append(df.cols, column_name),
     data |-> [r \in 1..Len(df.data) |->
                  Append(df.data[r], [k |-> "str", v |-> value])]]

\* Lines 40-44, for the first n parameters of the combination.
RECURSIVE AddParams(_, _, _)
AddParams(df, combo, n) ==
    IF n = 0 THEN df
    ELSE LET done == AddParams(df, combo, n - 1)
             column_name == combo[n].key
             value == combo[n].value
         IN  IF \E c \in 1..Len(done.cols) : done.cols[c] = column_name
             THEN FillNa(done, column_name, value)
             ELSE NewColumn(done, column_name, value)

\* An annotation that fails on a missing file by creating an empty table.
AddParametersToPsvCreating(file, combo) ==
    IF ~file.exists
    THEN [exists |-> TRUE, cols |-> [j \in 1..Len(combo) |-> combo[j].key], rows |-> <<>>]
    ELSE ToCsv(AddParams(ReadCsv(file), combo, Len(combo)))

\* Lines 31-47: the PSV file after add_parameters_to_psv(psv_location, params).
AddParametersToPsv(file, combo) ==
    IF ~file.exists THEN file
    ELSE ToCsv(AddParams(ReadCsv(file), combo, Len(combo)))

(***************************************************************************)
(* The benchmark, genomics_benchmarks.main(): it reads the configuration   *)
(* file and may add a row of results to the PSV file of the label.  The    *)
(* row holds the number of the run in column "run" (as many "1" as the     *)
(* run's number) and nothing in the other columns.                         *)
(***************************************************************************)
RunColumn == "run"
RunTag(n) == [i \in 1..n |-> "1"]

BenchmarkAppend(file, n) ==
    IF ~file.exists
    THEN [exists |-> TRUE, cols |-> <<RunColumn>>, rows |-> << <<RunTag(n)>> >>]
    ELSE [exists |-> TRUE,
          cols |-> file.cols,
          rows |-> Append(file.rows,
                          [c \in 1..Len(file.cols) |->
                              IF file.cols[c] = RunColumn THEN RunTag(n) ELSE <<>>])]

(***************************************************************************)
(* The inputs of the script.                                               *)
(***************************************************************************)
RawStrings == Strings(SweepChars, MaxRawLen)

OtherSection == [name |-> "other", items |-> <<[key |-> "mode", raw |-> <<"a">>]>>]

BenchmarkSection(items) == [name |-> SweepSection, items |-> items]

SweepFiles ==
    LET all ==
            {<<>>, <<OtherSection>>, <<BenchmarkSection(<<>>)>>}
            \cup {<<BenchmarkSection(<<[key |-> "mode", raw |-> r]>>)>> : r \in RawStrings}
            \cup {<<OtherSection, BenchmarkSection(<<[key |-> "seed", raw |-> r]>>)>> :
                     r \in RawStrings}
            \cup {<<BenchmarkSection(<<[key |-> "mode", raw |-> r1],
                                       [key |-> "seed", raw |-> r2]>>)>> :
                     r1 \in RawStrings, r2 \in RawStrings}
    IN  {f \in all : Len(ProductParams(ExtractSweepParams(f))) <= MaxRuns}

Port == <<"http", "port", <<"8", "0">>>>

BaseFiles ==
    {[sections |-> {"http"}, items |-> {Port}],
     [sections |-> {SweepSection, "http"},
      items |-> {Port, <<SweepSection, "mode", <<"b">>>>, <<SweepSection, "keep", <<"c">>>>}]}

\* The PSV file of the label before the sweep: none, or the one of an earlier run.
PriorTables ==
    {Absent, [exists |-> TRUE, cols |-> <<RunColumn>>, rows |-> << <<<<"0">>>> >>]}

EmptyContent == [written |-> FALSE, config |-> EmptyConfig]
NoHandle == [name |-> 0, closed |-> TRUE, buffer |-> EmptyContent]

Init ==
    /\ pc = "load_base"
    /\ base_exists \in BOOLEAN
    /\ sweep_exists \in BOOLEAN
    /\ base_file \in (IF base_exists THEN BaseFiles ELSE {EmptyConfig})
    /\ sweep_file \in (IF sweep_exists THEN SweepFiles ELSE {<<>>})
    /\ psv \in PriorTables
    /\ base_config_dict = EmptyConfig
    /\ sweep_params = <<>>
    /\ markers = <<>>
    /\ benchmark_params = <<>>
    /\ benchmark_params_count = 0
    /\ counter = 0
    /\ params = <<>>
    /\ merged_config = EmptyConfig
    /\ tmp = <<>>
    /\ merged_config_file = NoHandle
    /\ invocations = <<>>
    /\ psv_errors = 0
    /\ error_msg = "none"
    /\ total_reported = -1
    /\ finished = FALSE
    /\ exit_status = "running"
    /\ history = <<>>

(***************************************************************************)
(* The script, step by step.                                               *)
(***************************************************************************)
\* Lines 60-68.
LoadBase ==
    /\ pc = "load_base"
    /\ IF base_exists
       THEN /\ base_config_dict' = ConfigparserToDict(base_file)
            /\ pc' = "load_sweep"
            /\ UNCHANGED <<error_msg, exit_status>>
       ELSE /\ error_msg' = "base"
            /\ exit_status' = "exit1"
            /\ pc' = "exited"
            /\ UNCHANGED base_config_dict
    /\ UNCHANGED <<base_exists, sweep_exists, base_file, sweep_file, sweep_params,
                   markers, benchmark_params, benchmark_params_count, counter, params,
                   merged_config, tmp, merged_config_file, invocations, psv, psv_errors,
                   total_reported, finished, history>>

\* A load of the sweep file that does not look for the file.
LoadSweepUnchecked ==
    /\ pc = "load_sweep"
    /\ pc' = "extract"
    /\ UNCHANGED <<base_exists, sweep_exists, base_file, sweep_file, base_config_dict,
                   sweep_params, markers, benchmark_params, benchmark_params_count,
                   counter, params, merged_config, tmp, merged_config_file, invocations,
                   psv, psv_errors, error_msg, total_reported, finished, exit_status,
                   history>>

\* Lines 70-77.
LoadSweep ==
    /\ pc = "load_sweep"
    /\ IF sweep_exists
       THEN /\ pc' = "extract"
            /\ UNCHANGED <<error_msg, exit_status>>
       ELSE /\ error_msg' = "sweep"
            /\ exit_status' = "exit1"
            /\ pc' = "exited"
    /\ UNCHANGED <<base_exists, sweep_exists, base_file, sweep_file, base_config_dict,
                   sweep_params, markers, benchmark_params, benchmark_params_count,
                   counter, params, merged_config, tmp, merged_config_file, invocations,
                   psv, psv_errors, total_reported, finished, history>>

\* Lines 79-96.
ExtractParams ==
    /\ pc = "extract"
    /\ sweep_params' = ExtractSweepParams(sweep_file)
    /\ markers' = OverriddenMarkers(sweep_params', base_file)
    /\ pc' = "product"
    /\ UNCHANGED <<base_exists, sweep_exists, base_file, sweep_file, base_config_dict,
                   benchmark_params, benchmark_params_count, counter, params,
                   merged_config, tmp, merged_config_file, invocations, psv, psv_errors,
                   error_msg, total_reported, finished, exit_status, history>>

\* A count that consumes the generator the loop iterates.
CountCombinationsNoTee ==
    /\ pc = "product"
    /\ benchmark_params' = <<>>
    /\ benchmark_params_count' = Len(ProductParams(sweep_params))
    /\ total_reported' = benchmark_params_count'
    /\ counter' = 0
    /\ pc' = "loop"
    /\ UNCHANGED <<base_exists, sweep_exists, base_file, sweep_file, base_config_dict,
                   sweep_params, markers, params, merged_config, tmp, merged_config_file,
                   invocations, psv, psv_errors, error_msg, finished, exit_status,
                   history>>

\* Lines 98-104.
CountCombinations ==
    /\ pc = "product"
    /\ benchmark_params' = ProductParams(sweep_params)
    /\ benchmark_params_count' = Len(benchmark_params')
    /\ total_reported' = benchmark_params_count'
    /\ counter' = 0
    /\ pc' = "loop"
    /\ UNCHANGED <<base_exists, sweep_exists, base_file, sweep_file, base_config_dict,
                   sweep_params, markers, params, merged_config, tmp, merged_config_file,
                   invocations, psv, psv_errors, error_msg, finished, exit_status,
                   history>>

\* Lines 105-117: the next combination and its merged configuration.
BeginRun ==
    /\ pc = "loop"
    /\ counter < Len(benchmark_params)
    /\ params' = benchmark_params[counter + 1]
    /\ merged_config' = MergeConfig(base_config_dict, params')
    /\ pc' = "open"
    /\ UNCHANGED <<base_exists, sweep_exists, base_file, sweep_file, base_config_dict,
                   sweep_params, markers, benchmark_params, benchmark_params_count,
                   counter, tmp, merged_config_file, invocations, psv, psv_errors,
                   error_msg, total_reported, finished, exit_status, history>>

\* Lines 119-120: a new, empty temporary file that is kept when closed.
OpenTemp ==
    /\ pc = "open"
    /\ tmp' = Append(tmp, [exists |-> TRUE, disk |-> EmptyContent])
    /\ merged_config_file' = [name |-> Len(tmp) + 1, closed |-> FALSE,
                              buffer |-> EmptyContent]
    /\ pc' = "write"
    /\ UNCHANGED <<base_exists, sweep_exists, base_file, sweep_file, base_config_dict,
                   sweep_params, markers, benchmark_params, benchmark_params_count,
                   counter, params, merged_config, invocations, psv, psv_errors,
                   error_msg, total_reported, finished, exit_status, history>>

\* Line 121: the merged configuration goes to the buffer of the handle.
WriteTemp ==
    /\ pc = "write"
    /\ merged_config_file' =
           [merged_config_file EXCEPT !.buffer = [written |-> TRUE, config |-> merged_config]]
    /\ pc' = "flush"
    /\ UNCHANGED <<base_exists, sweep_exists, base_file, sweep_file, base_config_dict,
                   sweep_params, markers, benchmark_params, benchmark_params_count,
                   counter, params, merged_config, tmp, invocations, psv, psv_errors,
                   error_msg, total_reported, finished, exit_status, history>>

\* A flush that leaves the file as it is.
FlushedNot(files, handle) == files

\* Line 122: the buffer of the handle goes to the file.
Flushed(files, handle) == [files EXCEPT ![handle.name].disk = handle.buffer]

FlushTemp ==
    /\ pc = "flush"
    /\ tmp' = Flushed(tmp, merged_config_file)
    /\ pc' = "run"
    /\ UNCHANGED <<base_exists, sweep_exists, base_file, sweep_file, base_config_dict,
                   sweep_params, markers, benchmark_params, benchmark_params_count,
                   counter, params, merged_config, merged_config_file, invocations, psv,
                   psv_errors, error_msg, total_reported, finished, exit_status,
                   history>>

\* What the benchmark is called with and finds: the file at --config_file as it
\* is on the disk, and the temporary files that exist.
Invocation(outcome) ==
    [index |-> counter + 1,
     config_file |-> merged_config_file.name,
     seen |-> tmp[merged_config_file.name].disk,
     temps |-> {n \in 1..Len(tmp) : tmp[n].exists},
     outcome |-> outcome]

\* main() raising inside a try block that goes on with the next combination.
BenchmarkRaisesCaught ==
    /\ pc = "run"
    /\ invocations' = Append(invocations, Invocation("raised"))
    /\ merged_config_file' = [merged_config_file EXCEPT !.closed = TRUE]
    /\ counter' = counter + 1
    /\ pc' = "loop"
    /\ UNCHANGED <<base_exists, sweep_exists, base_file, sweep_file, base_config_dict,
                   sweep_params, markers, benchmark_params, benchmark_params_count,
                   params, merged_config, tmp, psv, psv_errors, error_msg,
                   total_reported, finished, exit_status, history>>

\* Lines 125-130, main() raising: the with statement closes the handle and the
\* exception ends the script.
BenchmarkRaises ==
    /\ pc = "run"
    /\ invocations' = Append(invocations, Invocation("raised"))
    /\ merged_config_file' = [merged_config_file EXCEPT !.closed = TRUE]
    /\ exit_status' = "uncaught"
    /\ pc' = "aborted"
    /\ UNCHANGED <<base_exists, sweep_exists, base_file, sweep_file, base_config_dict,
                   sweep_params, markers, benchmark_params, benchmark_params_count,
                   counter, params, merged_config, tmp, psv, psv_errors, error_msg,
                   total_reported, finished, history>>

\* Lines 125-130, main() returning without a result.
BenchmarkReturns ==
    /\ pc = "run"
    /\ invocations' = Append(invocations, Invocation("returned"))
    /\ pc' = "remove"
    /\ UNCHANGED <<base_exists, sweep_exists, base_file, sweep_file, base_config_dict,
                   sweep_params, markers, benchmark_params, benchmark_params_count,
                   counter, params, merged_config, tmp, merged_config_file, psv,
                   psv_errors, error_msg, total_reported, finished, exit_status,
                   history>>

\* Lines 125-130, main() returning with its results added to the PSV file.
BenchmarkWritesResults ==
    /\ pc = "run"
    /\ invocations' = Append(invocations, Invocation("results"))
    /\ psv' = BenchmarkAppend(psv, counter + 1)
    /\ pc' = "remove"
    /\ UNCHANGED <<base_exists, sweep_exists, base_file, sweep_file, base_config_dict,
                   sweep_params, markers, benchmark_params, benchmark_params_count,
                   counter, params, merged_config, tmp, merged_config_file, psv_errors,
                   error_msg, total_reported, finished, exit_status, history>>

\* Lines 132-134.
RemoveTemp ==
    /\ pc = "remove"
    /\ merged_config_file' = [merged_config_file EXCEPT !.closed = TRUE]
    /\ tmp' = [tmp EXCEPT ![merged_config_file.name].exists = FALSE]
    /\ pc' = "annotate"
    /\ UNCHANGED <<base_exists, sweep_exists, base_file, sweep_file, base_config_dict,
                   sweep_params, markers, benchmark_params, benchmark_params_count,
                   counter, params, merged_config, invocations, psv, psv_errors,
                   error_msg, total_reported, finished, exit_status, history>>

\* Lines 136-140.
Annotate ==
    /\ pc = "annotate"
    /\ psv' = AddParametersToPsv(psv, params)
    /\ psv_errors' = IF psv.exists THEN psv_errors ELSE psv_errors + 1
    /\ counter' = counter + 1
    /\ pc' = "loop"
    /\ UNCHANGED <<base_exists, sweep_exists, base_file, sweep_file, base_config_dict,
                   sweep_params, markers, benchmark_params, benchmark_params_count,
                   params, merged_config, tmp, merged_config_file, invocations,
                   error_msg, total_reported, finished, exit_status, history>>

\* Lines 142-143.
Finish ==
    /\ pc = "loop"
    /\ counter = Len(benchmark_params)
    /\ finished' = TRUE
    /\ exit_status' = "exit0"
    /\ pc' = "done"
    /\ UNCHANGED <<base_exists, sweep_exists, base_file, sweep_file, base_config_dict,
                   sweep_params, markers, benchmark_params, benchmark_params_count,
                   counter, params, merged_config, tmp, merged_config_file, invocations,
                   psv, psv_errors, error_msg, total_reported, history>>

Next ==
    \/ LoadBase
    \/ LoadSweep
    \/ ExtractParams
    \/ CountCombinations
    \/ BeginRun
    \/ OpenTemp
    \/ WriteTemp
    \/ FlushTemp
    \/ BenchmarkRaises
    \/ BenchmarkReturns
    \/ BenchmarkWritesResults
    \/ RemoveTemp
    \/ Annotate
    \/ Finish

Spec == Init /\ [][Next]_vars

(***************************************************************************)
(* add_parameters_to_psv on its own: a PSV file and a combination, and the *)
(* function applied to the file twice.                                     *)
(***************************************************************************)
CellTexts == {<<>>, <<"a">>, <<"1">>, <<"0", "1">>}

AnnotateTables ==
    {Absent}
    \cup {[exists |-> TRUE, cols |-> cols, rows |-> rows] :
             cols \in {<<"m">>, <<"m", "mode">>},
             rows \in UNION {[1..n -> [1..2 -> CellTexts]] : n \in 0..MaxRows}}

AnnotateCombos ==
    {<<>>}
    \cup {<<[key |-> k, value |-> v]>> : k \in {"mode", "seed"}, v \in CellTexts}
    \cup {<<[key |-> "mode", value |-> v], [key |-> "seed", value |-> w]>> :
             v \in CellTexts, w \in CellTexts}

AnnotateInit ==
    /\ pc = "annotate_only"
    /\ psv \in {t \in AnnotateTables :
                   \A r \in 1..Len(t.rows) : Len(t.rows[r]) = Len(t.cols)}
    /\ params \in AnnotateCombos
    /\ history = <<>>
    /\ base_exists = TRUE
    /\ sweep_exists = TRUE
    /\ base_file = EmptyConfig
    /\ sweep_file = <<>>
    /\ base_config_dict = EmptyConfig
    /\ sweep_params = <<>>
    /\ markers = <<>>
    /\ benchmark_params = <<>>
    /\ benchmark_params_count = 0
    /\ counter = 0
    /\ merged_config = EmptyConfig
    /\ tmp = <<>>
    /\ merged_config_file = NoHandle
    /\ invocations = <<>>
    /\ psv_errors = 0
    /\ error_msg = "none"
    /\ total_reported = -1
    /\ finished = FALSE
    /\ exit_status = "running"

\* Line 138, called twice on the same file with the same combination.
AnnotateCall ==
    /\ pc = "annotate_only"
    /\ Len(history) < 2
    /\ history' = Append(history, psv)
    /\ psv' = AddParametersToPsv(psv, params)
    /\ psv_errors' = IF psv.exists THEN psv_errors ELSE psv_errors + 1
    /\ UNCHANGED <<pc, base_exists, sweep_exists, base_file, sweep_file,
                   base_config_dict, sweep_params, markers, benchmark_params,
                   benchmark_params_count, counter, params, merged_config, tmp,
                   merged_config_file, invocations, error_msg, total_reported,
                   finished, exit_status>>

SpecAnnotate == AnnotateInit /\ [][AnnotateCall]_vars

(***************************************************************************)
(* What the properties speak of.                                           *)
(***************************************************************************)
\* The value a text cell denotes: missing, a number or a string.  Two texts of
\* the same number ("1", "01", "1.0") denote the same value.
Sem(t) ==
    IF IsNA(t) THEN [k |-> "nan", v |-> <<>>]
    ELSE IF IsNumText(t) THEN [k |-> "num", v |-> NumCanon(t)]
    ELSE [k |-> "str", v |-> t]

HasColumn(file, name) == \E c \in 1..Len(file.cols) : file.cols[c] = name
ColumnOf(file, name) == CHOOSE c \in 1..Len(file.cols) : file.cols[c] = name
Keys(combo) == {combo[j].key : j \in 1..Len(combo)}

\* The product of the lengths of the candidate lists after the j-th.
RECURSIVE LaterProduct(_, _)
LaterProduct(sp, j) ==
    IF j >= Len(sp) THEN 1 ELSE Len(sp[j + 1].values) * LaterProduct(sp, j + 1)

LensProduct(sp) == LaterProduct(sp, 0)

\* The candidate of the j-th parameter in the n-th combination of the nested
\* loops over the parameters in declaration order, the last one innermost.
ExpectedValue(sp, n, j) ==
    sp[j].values[(((n - 1) \div LaterProduct(sp, j)) % Len(sp[j].values)) + 1]

Enumerated == pc \in {"loop", "open", "write", "flush", "run", "remove", "annotate",
                      "done", "aborted"}
InRun == pc \in {"open", "write", "flush", "run", "remove", "annotate"}
SomeRaised == \E i \in 1..Len(invocations) : invocations[i].outcome = "raised"
NoRepeats(sp) ==
    \A j \in 1..Len(sp) : \A a, b \in 1..Len(sp[j].values) :
        sp[j].values[a] = sp[j].values[b] => a = b

(***************************************************************************)
(* C1: whenever an iteration has ended, by main() returning or by main()   *)
(* raising, no temporary file created by the sweep exists.                 *)
(***************************************************************************)
C1_TempFilesRemoved ==
    pc \in {"loop", "done", "aborted"} => \A n \in 1..Len(tmp) : ~tmp[n].exists

(***************************************************************************)
(* C2: once main() has raised for combination i, the script has ended with *)
(* the uncaught exception: that call is the last one, the combinations     *)
(* annotated are those before i, and 'Finished' and exit status 0 are not  *)
(* reached.                                                                *)
(***************************************************************************)
C2_FailFast ==
    \A i \in 1..Len(invocations) :
        invocations[i].outcome = "raised" =>
            /\ i = Len(invocations)
            /\ pc = "aborted"
            /\ exit_status = "uncaught"
            /\ counter = i - 1
            /\ ~finished

C2_Witness ==
    /\ pc = "aborted"
    /\ Len(invocations) = 2
    /\ benchmark_params_count > 2

(***************************************************************************)
(* C3: after every completed iteration of a sweep in which every call of   *)
(* main() added its row to the PSV file, every run has its row, the row of *)
(* run i holds the values of combination i in the columns of the swept     *)
(* parameters, and no row has a missing value in such a column.            *)
(***************************************************************************)
C3_Populated ==
    (/\ pc \in {"loop", "done"}
     /\ counter >= 1
     /\ \A i \in 1..Len(invocations) : invocations[i].outcome = "results")
    => /\ psv.exists
       /\ \A j \in 1..Len(sweep_params) : HasColumn(psv, sweep_params[j].key)
       /\ \A i \in 1..counter :
             Cardinality({r \in 1..Len(psv.rows) :
                             psv.rows[r][ColumnOf(psv, RunColumn)] = RunTag(i)}) = 1
       /\ \A r \in 1..Len(psv.rows) : \A j \in 1..Len(sweep_params) :
             LET cell == psv.rows[r][ColumnOf(psv, sweep_params[j].key)]
             IN  /\ Sem(cell).k # "nan"
                 /\ \A i \in 1..counter :
                       psv.rows[r][ColumnOf(psv, RunColumn)] = RunTag(i)
                           => Sem(cell) = Sem(benchmark_params[i][j].value)

C5_NoDuplicates ==
    Enumerated =>
        /\ benchmark_params_count = LensProduct(sweep_params)
        /\ Len(benchmark_params) = benchmark_params_count
        /\ total_reported = benchmark_params_count
        /\ \A n \in 1..Len(benchmark_params) :
              /\ Len(benchmark_params[n]) = Len(sweep_params)
              /\ \A j \in 1..Len(sweep_params) :
                    benchmark_params[n][j].key = sweep_params[j].key
        /\ \A n, m \in 1..Len(benchmark_params) :
              benchmark_params[n] = benchmark_params[m] => n = m
        /\ pc = "done" => Len(invocations) = total_reported

(***************************************************************************)
(* C5, amended: the combinations are as many as the product of the lengths *)
(* of the candidate lists, each assigns to every parameter one of its      *)
(* candidates, no two of them are equal when no candidate list holds a     *)
(* string twice, there is exactly one, the empty one, when there is no     *)
(* parameter, and the total reported is the number of runs of a sweep that *)
(* ends with 'Finished'.                                                   *)
(***************************************************************************)
C5_Enumeration ==
    Enumerated =>
        /\ benchmark_params_count = LensProduct(sweep_params)
        /\ Len(benchmark_params) = benchmark_params_count
        /\ total_reported = benchmark_params_count
        /\ \A n \in 1..Len(benchmark_params) :
              /\ Len(benchmark_params[n]) = Len(sweep_params)
              /\ \A j \in 1..Len(sweep_params) :
                    /\ benchmark_params[n][j].key = sweep_params[j].key
                    /\ \E a \in 1..Len(sweep_params[j].values) :
                          benchmark_params[n][j].value = sweep_params[j].values[a]
        /\ NoRepeats(sweep_params) =>
              \A n, m \in 1..Len(benchmark_params) :
                  benchmark_params[n] = benchmark_params[m] => n = m
        /\ Len(sweep_params) = 0 =>
              Len(benchmark_params) = 1 /\ Len(benchmark_params[1]) = 0
        /\ pc = "done" => Len(invocations) = total_reported

C5_Witness ==
    /\ pc = "done"
    /\ Len(sweep_params) = 2
    /\ benchmark_params_count = 4
    /\ ~NoRepeats(sweep_params)
    /\ benchmark_params[1] = benchmark_params[2]

(***************************************************************************)
(* C6: the i-th call of main() is for the i-th combination of the nested   *)
(* loops over the parameters in declaration order, the last one innermost; *)
(* it finds on the disk, in the i-th temporary file, the configuration     *)
(* with that combination in the sweep section, and no other temporary file *)
(* exists then; no temporary file is created before the call for the one   *)
(* before it; a sweep that ends with 'Finished' has made one call per      *)
(* combination.                                                            *)
(***************************************************************************)
C6_Order ==
    /\ \A i \in 1..Len(invocations) :
          /\ invocations[i].index = i
          /\ invocations[i].config_file = i
          /\ invocations[i].temps = {i}
          /\ invocations[i].seen.written
          /\ SweepSection \in invocations[i].seen.config.sections
          /\ \A j \in 1..Len(sweep_params) : \A t \in invocations[i].seen.config.items :
                (t[1] = SweepSection /\ t[2] = sweep_params[j].key)
                    => t[3] = ExpectedValue(sweep_params, i, j)
          /\ \A j \in 1..Len(sweep_params) :
                <<SweepSection, sweep_params[j].key, ExpectedValue(sweep_params, i, j)>>
                    \in invocations[i].seen.config.items
    /\ Len(tmp) <= Len(invocations) + 1
    /\ Len(invocations) <= LensProduct(sweep_params)
    /\ pc = "done" => Len(invocations) = LensProduct(sweep_params)

C6_Witness ==
    /\ pc = "done"
    /\ Len(sweep_params) = 2
    /\ Len(invocations) = 4
    /\ NoRepeats(sweep_params)
    /\ \A i \in 1..4 : invocations[i].outcome # "raised"
    /\ ExpectedValue(sweep_params, 2, 1) = ExpectedValue(sweep_params, 1, 1)
    /\ ExpectedValue(sweep_params, 2, 2) # ExpectedValue(sweep_params, 1, 2)
    /\ ExpectedValue(sweep_params, 3, 1) # ExpectedValue(sweep_params, 1, 1)

(***************************************************************************)
(* C9: add_parameters_to_psv on a missing PSV file prints its message,     *)
(* leaves the file missing and does not end the script: the loop goes on   *)
(* with the next combination.  The script is ended before 'Finished' only  *)
(* by main() raising, and a sweep that ends with 'Finished' has called     *)
(* main() for every combination and exits with status 0.                   *)
(***************************************************************************)
C9_MissingTable ==
    /\ [][(pc = "annotate" /\ ~psv.exists) =>
             /\ psv' = psv
             /\ psv_errors' = psv_errors + 1
             /\ exit_status' = "running"
             /\ counter' = counter + 1
             /\ invocations' = invocations
             /\ pc' = "loop"]_vars
    /\ [](pc = "aborted" => invocations[Len(invocations)].outcome = "raised")
    /\ [](pc = "done" => /\ Len(invocations) = benchmark_params_count
                         /\ finished
                         /\ exit_status = "exit0")

C9_Witness ==
    /\ pc = "done"
    /\ ~psv.exists
    /\ psv_errors = 3
    /\ Len(invocations) = 3

(***************************************************************************)
(* C10: when the base or the sweep configuration file does not exist, the  *)
(* script exits with status 1 before it has enumerated a combination,      *)
(* created a temporary file or called main(); the message names the base   *)
(* file when that one is missing and the sweep file otherwise.             *)
(***************************************************************************)
C10_Preflight ==
    (~base_exists \/ ~sweep_exists) =>
        /\ pc \in {"load_base", "load_sweep", "exited"}
        /\ sweep_params = <<>>
        /\ benchmark_params = <<>>
        /\ total_reported = -1
        /\ tmp = <<>>
        /\ invocations = <<>>
        /\ ~finished
        /\ pc = "load_sweep" => base_exists
        /\ pc = "exited" =>
              /\ exit_status = "exit1"
              /\ error_msg = (IF ~base_exists THEN "base" ELSE "sweep")
        /\ pc # "exited" => exit_status = "running" /\ error_msg = "none"

C10_Witness ==
    /\ pc = "exited"
    /\ base_exists
    /\ ~sweep_exists
    /\ error_msg = "sweep"
    /\ exit_status = "exit1"

(***************************************************************************)
(* C7: add_parameters_to_psv on an existing table keeps the rows and the   *)
(* columns and adds, in the order of the combination, a column for every   *)
(* parameter that has none.  In the column of a parameter a missing cell   *)
(* becomes the value of the combination and a cell with a value keeps it;  *)
(* every cell of a new column is the value of the combination; the cells   *)
(* of the other columns keep their values.  Values are compared as the     *)
(* table's reader takes them: "01", "1" and "1.0" are the same number.     *)
(***************************************************************************)
ValueOf(combo, key) == combo[CHOOSE j \in 1..Len(combo) : combo[j].key = key].value
NewKeys(file, combo) ==
    LET keys == [j \in 1..Len(combo) |-> combo[j].key]
        new(k) == ~HasColumn(file, k)
    IN  SelectSeq(keys, new)
AfterCall(n) == IF n = Len(history) THEN psv ELSE history[n + 1]

SemTable(file) ==
    [exists |-> file.exists,
     cols |-> file.cols,
     rows |-> [r \in 1..Len(file.rows) |->
                  [c \in 1..Len(file.rows[r]) |-> Sem(file.rows[r][c])]]]

====
